---- MODULE Spec2Model ----
(***************************************************************************)
(* A model of aiocrawler's Engine (src/aiocrawler/engine.py): the run      *)
(* entry point main(), the main job _main(), the word loops and request    *)
(* loops, the middleware chain, the fetch result dispatch and the shutdown *)
(* flags.  Every task of the asyncio event loop is a process with a        *)
(* program counter; one action is one stretch of code between two          *)
(* suspension points.                                                      *)
(***************************************************************************)
EXTENDS Integers, Sequences, FiniteSets, TLC

(***************************************************************************)
(* Bounds of the model.                                                    *)
(***************************************************************************)
\* settings.CONCURRENT_WORDS: the number of word loops _main launches
CONCURRENT_WORDS == 1
\* settings.CONCURRENT_REQUESTS: the number of request loops _main launches
CONCURRENT_REQUESTS == 1
\* how many interrupt signals the environment delivers at most
MaxSignals == 2
\* how many seed words the scheduler holds at the start
MaxWords == 1
\* how many Requests the user's callbacks produce at most, all in all
MaxProduced == 1
\* how many distinct request fingerprints (urls) there are
NumFingerprints == 1
\* how many attribute names an Item class and an Item use
MaxFields == 2
\* the longest list make_request returns
MaxMade == 2

\* the invocations of main() on one Engine: the first, and a second one
Invocations == {1, 2}

None == "None"

(***************************************************************************)
(* The state.                                                              *)
(***************************************************************************)
VARIABLES
    settings,          \* DEFAULT_MIDDLEWARES and MIDDLEWARES of the settings
    middlewares,       \* Engine.__middlewares, the chain
    shutting_down,     \* Engine.__shutting_down
    shutdown,          \* Engine.__shutdown (forced)
    signal_int_count,  \* Engine.__signal_int_count
    finish_reason,     \* collector.finish_reason
    running,           \* collector.running
    main_pc,           \* where each invocation of main() is
    job_pc,            \* where each invocation's main job _main() is
    start_job,         \* the spawned collect_start job of each invocation
    startup_pc,        \* the startup task of each invocation
    cleanup_pc,        \* the cleanup task of each invocation
    loop,              \* the word loops and request loops
    words,             \* the scheduler's word queue
    requests,          \* the scheduler's request queue
    produced,          \* how many Requests the callbacks have produced
    stats,             \* per fingerprint: the filter's accepts and rejects,
                       \* collect_request events, downloader calls
    handling           \* one call of __handle_spider_item: the Item, what the
                       \* process_item hooks made of it, the copy returned

vars == <<settings, middlewares, shutting_down, shutdown, signal_int_count,
          finish_reason, running, main_pc, job_pc, start_job, startup_pc,
          cleanup_pc, loop, words, requests, produced, stats, handling>>

flags == <<shutting_down, shutdown, signal_int_count, finish_reason>>
queues == <<words, requests, produced, stats>>
tasks == <<start_job, startup_pc, cleanup_pc>>

Fingerprints == 1..NumFingerprints

WordLoops(i) == {<<i, "word", n>> : n \in 1..CONCURRENT_WORDS}
RequestLoops(i) == {<<i, "request", n>> : n \in 1..CONCURRENT_REQUESTS}
LoopsOf(i) == WordLoops(i) \cup RequestLoops(i)
Loops == UNION {LoopsOf(i) : i \in Invocations}
AllRequestLoops == UNION {RequestLoops(i) : i \in Invocations}
AllWordLoops == UNION {WordLoops(i) : i \in Invocations}

(***************************************************************************)
(* Values.  A Request is its fingerprint (its url).  Whether a request     *)
(* carries an error callback, and whether its callbacks are defined on the *)
(* spider's class, is read once, when its fetch outcome is dispatched, and *)
(* is drawn there.                                                         *)
(***************************************************************************)
RequestThing(f) == [type |-> "Request", id |-> f]
ItemThing(n) == [type |-> "Item", id |-> n]

\* what a hook, a callback or the downloader hands back: None, a Response,
\* or a sequence of Requests and Items (a single one is a sequence of one)
NoneValue == [kind |-> "None", out |-> <<>>]
ResponseValue == [kind |-> "Response", out |-> <<>>]
ExceptionValue == [kind |-> "Exception", out |-> <<>>]
OutValue(seq) == [kind |-> "Out", out |-> seq]

ItemValue == OutValue(<<ItemThing(1)>>)

\* Python's truth value of a handled value: None and the empty list are false
Truthy(v) == v.kind = "Response" \/ v.kind = "Exception"
             \/ (v.kind = "Out" /\ v.out # <<>>)

\* the sequences a callback may return when it may still produce Requests
\* (withRequests) or only Items
Outputs(withRequests) ==
    LET reqs == IF withRequests THEN {RequestThing(f) : f \in Fingerprints}
                ELSE {}
    IN  {<<>>, <<ItemThing(1)>>} \cup {<<r>> : r \in reqs}
        \cup {<<r, ItemThing(1)>> : r \in reqs}

\* a call of user-supplied code: a plain function or a coroutine function,
\* raising or returning value
Call(sync, raises, value) == [sync |-> sync, raises |-> raises, value |-> value]
Calls(values) == [sync : BOOLEAN, raises : BOOLEAN, value : values]

(***************************************************************************)
(* __run_task(task), with the evaluation of its argument: a plain function *)
(* runs when the argument is evaluated, outside the try, so its exception  *)
(* reaches the caller; a coroutine is awaited inside the try, its          *)
(* exception is logged and None is returned.                               *)
(***************************************************************************)
RunTask(call) ==
    [raised |-> call.sync /\ call.raises,
     value  |-> IF call.raises THEN NoneValue ELSE call.value]

(***************************************************************************)
(* __initialize: the middleware chain.                                     *)
(***************************************************************************)
MinPriority == 0
MaxPriority == 1000

\* middlewares.__all__
KnownMiddlewares == {"BaseMiddleware", "AllowedCodesMiddleware",
                     "SetDefaultMiddleware", "UserAgentMiddleware"}

\* the classes cls is a subclass of; every middleware class of the model
\* other than object derives from BaseMiddleware
Bases(cls) == IF cls = "object" THEN {"object"}
              ELSE {cls, "BaseMiddleware", "object"}
IsSubclass(cls, of) == of \in Bases(cls)

ValidKey(key) == MinPriority <= key /\ key <= MaxPriority

\* the pairs the two for loops append, in the order they append them
AppendedPairs(s) ==
    SelectSeq(s.DEFAULT_MIDDLEWARES,
              LAMBDA p : ValidKey(p.key) /\ p.mw \in KnownMiddlewares)
    \o SelectSeq(s.MIDDLEWARES,
              LAMBDA p : ValidKey(p.key) /\ IsSubclass("BaseMiddleware", p.mw))

\* a pair with the position it was appended at
Positioned(pairs) ==
    [i \in 1..Len(pairs) |-> [mw |-> pairs[i].mw, key |-> pairs[i].key, pos |-> i]]

RECURSIVE InsertByKey(_, _)
InsertByKey(sorted, x) ==
    IF sorted = <<>> THEN <<x>>
    ELSE IF Head(sorted).key <= x.key
         THEN <<Head(sorted)>> \o InsertByKey(Tail(sorted), x)
         ELSE <<x>> \o sorted

RECURSIVE StableSort(_)
StableSort(pairs) ==
    IF pairs = <<>> THEN <<>>
    ELSE InsertByKey(StableSort(SubSeq(pairs, 1, Len(pairs) - 1)),
                     pairs[Len(pairs)])

\* the chain left in the order the pairs were appended
NotSorted(pairs) == pairs

\* sorted(self.__middlewares, key=lambda x: x[1]): stable, ascending
SortedByKey(pairs) == StableSort(pairs)

\* __initialize raises: sorted() reads x[1] of every element, and an element
\* left by an earlier __initialize is an instance, not a pair; object takes
\* no constructor arguments
InitializeRaises(old, s) ==
    \/ old # <<>>
    \/ \E i \in DOMAIN AppendedPairs(s) : AppendedPairs(s)[i].mw = "object"

\* the chain: one instance per appended pair, in sorted order (an instance
\* is written with the key and the position of its pair)
BuildChain(s) == SortedByKey(Positioned(AppendedPairs(s)))

(***************************************************************************)
(* Running one extension point of the chain: the for loops over            *)
(* self.__middlewares.  calls[i] is what middleware i's hook does; the     *)
(* result names the hooks invoked, in order, whether an exception left the *)
(* loop, and the last handled value.                                       *)
(***************************************************************************)
IsItem(v) == v.kind = "Out" /\ v.out # <<>>

\* the test after a hook's call that leaves the for loop: none after
\* process_request, "if handled_data: break" after process_exception and
\* process_response, "if isinstance(processed_item, Item)" after process_item
Breaks(point, v) ==
    CASE point = "process_request" -> FALSE
      [] point = "process_outcome" -> Truthy(v)
      [] point = "process_item" -> IsItem(v)

RECURSIVE RunChain(_, _, _, _)
RunChain(calls, i, point, last) ==
    IF i > Len(calls) THEN [raised |-> FALSE, log |-> <<>>, value |-> last]
    ELSE LET r == RunTask(calls[i])
         IN  IF r.raised
             THEN [raised |-> TRUE, log |-> <<i>>, value |-> NoneValue]
             ELSE IF Breaks(point, r.value)
             THEN [raised |-> FALSE, log |-> <<i>>, value |-> r.value]
             ELSE LET rest == RunChain(calls, i + 1, point, r.value)
                  IN  [raised |-> rest.raised, log |-> <<i>> \o rest.log,
                       value |-> rest.value]

\* for downloader_middleware in self.__middlewares: process_request
ProcessRequestChain(calls) == RunChain(calls, 1, "process_request", NoneValue)
\* __handle_downloader_exception's and __handle_downloader_response's loops
ProcessOutcomeChain(calls) == RunChain(calls, 1, "process_outcome", NoneValue)
\* __handle_spider_item's loop
ProcessItemChain(calls) == RunChain(calls, 1, "process_item", NoneValue)

(***************************************************************************)
(* __handle_spider_item and get_fields: the copy of an Item.  An Item      *)
(* class is its class body, every name of it a Field or something else; an *)
(* Item is a mapping with its class, the keys set on it, the value val     *)
(* under each of them, and possibly an instance attribute set by user      *)
(* code.                                                                   *)
(***************************************************************************)
Names == 1..MaxFields
ItemClasses == [Names -> {"Field", "other"}]
ItemsWith(val) == [cls : ItemClasses, keys : SUBSET Names, attrs : BOOLEAN,
                   val : {val}]

\* no Item: what a process_item hook that returns None leaves
NoItem == [cls |-> [n \in Names |-> "other"], keys |-> {}, attrs |-> FALSE,
           val |-> None]
NoCopy == [made |-> FALSE, cls |-> NoItem.cls, data |-> <<>>, attrs |-> FALSE]

\* every name of the class body, Field or not
AllClassNames(cls) == Names

\* get_fields: the names of item.__class__.__dict__ whose value is a Field
GetFields(cls) == {n \in Names : cls[n] = "Field"}

\* if item: a mapping is true when it holds a key
ItemTruthy(item) == item.val # None /\ item.keys # {}

\* item_copy = item.__class__(); item_copy[field] = item.get(field, None)
\* for every field of get_fields
CopyOf(item) ==
    [made |-> TRUE, cls |-> item.cls,
     data |-> [f \in GetFields(item.cls) |->
                 IF f \in item.keys THEN item.val ELSE None],
     attrs |-> FALSE]

\* __handle_spider_item(item), processed being the first Item a
\* process_item hook returned (NoItem when none did)
HandleSpiderItem(item, processed) ==
    LET it == IF processed.val # None THEN processed ELSE item
    IN  IF ItemTruthy(it) THEN CopyOf(it) ELSE NoCopy

NoHandling == [pc |-> "none", item |-> NoItem, processed |-> NoItem,
               copy |-> NoCopy]
Handlings == [pc : {"called"}, item : ItemsWith("own"),
              processed : {NoItem} \cup ItemsWith("hook"), copy : {NoCopy}]

\* the call returns
SpiderItem ==
    /\ handling.pc = "called"
    /\ handling' = [handling EXCEPT
            !.pc = "returned",
            !.copy = HandleSpiderItem(handling.item, handling.processed)]
    /\ UNCHANGED <<settings, middlewares, flags, running, main_pc, job_pc,
                   tasks, loop, queues>>

(***************************************************************************)
(* The initial state: the Engine as constructed, the first main() called.  *)
(***************************************************************************)
Pair(mw, key) == [mw |-> mw, key |-> key]

\* the settings the model runs under: no middleware at all; two defaults
\* configured out of priority order and one outside the priority range; a
\* default and two user middlewares, two of the three of equal priority
SettingsChoices ==
    {[DEFAULT_MIDDLEWARES |-> <<>>, MIDDLEWARES |-> <<>>],
     [DEFAULT_MIDDLEWARES |-> <<Pair("SetDefaultMiddleware", 200),
                                Pair("UserAgentMiddleware", 100),
                                Pair("AllowedCodesMiddleware", 1001)>>,
      MIDDLEWARES |-> <<>>],
     [DEFAULT_MIDDLEWARES |-> <<Pair("SetDefaultMiddleware", 100)>>,
      MIDDLEWARES |-> <<Pair("BaseMiddleware", 100),
                        Pair("UserMiddleware", 50)>>]}

\* a loop: where it is, the word or request it holds (0: none), whether the
\* filter accepted that request, whether it did so before shutting_down
\* was set, the downloader's data or the handled value, the fan-out tasks
\* it created, the hooks its last chain run invoked, and the call whose
\* exception ended it.  About the iteration it has just finished, until its
\* next shutdown check: calls, how often it called send_request (a word
\* loop) or append_error_request (a request loop); made, how many Requests
\* make_request returned; miss, whether the fetch failed, every
\* process_exception hook that ran returned None and no error callback was
\* called; passed, collected and sent, how many Items of its fan-out
\* filter_item accepted, collect_item counted and send_item delivered
IdleLoop == [pc |-> "none", unit |-> 0, accepted |-> FALSE, early |-> FALSE,
             value |-> NoneValue, tasks |-> <<>>, log |-> <<>>, fault |-> None,
             calls |-> 0, made |-> 0, miss |-> FALSE,
             passed |-> 0, collected |-> 0, sent |-> 0]

InitWith(seed_words, seed_requests, items) ==
    /\ settings \in SettingsChoices
    /\ middlewares = <<>>
    /\ shutting_down = FALSE
    /\ shutdown = FALSE
    /\ signal_int_count = 0
    /\ finish_reason = None
    /\ running = FALSE
    /\ main_pc = [i \in Invocations |-> IF i = 1 THEN "start" ELSE "idle"]
    /\ job_pc = [i \in Invocations |-> "none"]
    /\ start_job = [i \in Invocations |-> "none"]
    /\ startup_pc = [i \in Invocations |-> "none"]
    /\ cleanup_pc = [i \in Invocations |-> "none"]
    /\ loop = [l \in Loops |-> IdleLoop]
    /\ words = seed_words
    /\ requests = seed_requests
    /\ produced = 0
    /\ stats = [accepted  |-> [f \in Fingerprints |-> 0],
                collected |-> [f \in Fingerprints |-> 0],
                rejected  |-> [f \in Fingerprints |-> 0],
                fetched   |-> [f \in Fingerprints |-> 0]]
    /\ handling \in items

\* the scheduler holds its seed words
Init == InitWith([n \in 1..MaxWords |-> n], <<>>, {NoHandling})

(***************************************************************************)
(* The event loop is one thread: while a request loop is inside the        *)
(* blocking sleep() of line 271 no other task of the loop runs.            *)
(***************************************************************************)
Blocked == \E l \in AllRequestLoops : loop[l].pc = "throttle"

(***************************************************************************)
(* The shutdown flags.                                                     *)
(***************************************************************************)
\* close_crawler(reason, force)
CloseCrawlerEffect(reason, force) ==
    /\ IF force
       THEN shutdown' = TRUE /\ UNCHANGED shutting_down
       ELSE shutting_down' = TRUE /\ UNCHANGED shutdown
    /\ finish_reason' = reason

\* the public close operation, called by user code running on the event loop
CloseCrawler(force) ==
    /\ ~Blocked
    /\ \E i \in Invocations : main_pc[i] \notin {"idle", "rejected"}
    /\ CloseCrawlerEffect("Finished", force)
    /\ UNCHANGED <<settings, handling, middlewares, signal_int_count, running, main_pc,
                   job_pc, tasks, loop, queues>>

\* signal.signal(SIGINT, ...) has run in some invocation of main()
HandlerInstalled == \E i \in Invocations : main_pc[i] \in {"wait", "returned"}

\* a handler that takes the second signal for a graceful one as well
SignalIsGracefulTwice(count) == count <= 2

\* if self.__signal_int_count == 1: the signal is the graceful one
SignalIsGraceful(count) == count = 1

\* __shutdown_signal
ShutdownSignal ==
    /\ HandlerInstalled
    /\ signal_int_count < MaxSignals
    /\ signal_int_count' = signal_int_count + 1
    /\ CloseCrawlerEffect("Received SIGNAL INT",
                          ~SignalIsGraceful(signal_int_count'))
    /\ UNCHANGED <<settings, handling, middlewares, running, main_pc, job_pc, tasks,
                   loop, queues>>

(***************************************************************************)
(* main(): the top-level supervisor.                                       *)
(***************************************************************************)
JobActive(i) == job_pc[i] \in {"init", "launch", "waitloops", "waitcleanup"}
\* main_job.closed
JobClosed(i) == job_pc[i] \in {"done", "raised", "cancelled"}

\* main() is called once more on the same Engine while an earlier call is
\* still under way
MainAgain(i) ==
    /\ ~Blocked
    /\ main_pc[i] = "idle"
    /\ \E j \in Invocations : main_pc[j] \notin {"idle", "returned", "rejected"}
    /\ main_pc' = [main_pc EXCEPT ![i] = "start"]
    /\ UNCHANGED <<settings, handling, middlewares, flags, running, job_pc, tasks, loop,
                   queues>>

\* if self.__collector.running: return; else create the job scheduler
MainStart(i) ==
    /\ ~Blocked
    /\ main_pc[i] = "start"
    /\ main_pc' = [main_pc EXCEPT ![i] = IF running THEN "rejected" ELSE "spawn"]
    /\ UNCHANGED <<settings, handling, middlewares, flags, running, job_pc, tasks, loop,
                   queues>>

\* signal.signal(...); main_job = spawn(self._main())
MainSpawn(i) ==
    /\ ~Blocked
    /\ main_pc[i] = "spawn"
    /\ main_pc' = [main_pc EXCEPT ![i] = "wait"]
    /\ job_pc' = [job_pc EXCEPT ![i] = "init"]
    /\ UNCHANGED <<settings, handling, middlewares, flags, running, tasks, loop, queues>>

\* a wait loop that looks at the main job only
ExitOnlyWhenJobClosed(i) == JobClosed(i)

\* if self.__shutdown or main_job.closed: break
WaitLoopExits(i) == shutdown \/ JobClosed(i)

\* the wait loop breaks; main_job.close() cancels the main job when it still
\* runs, job_scheduler.close() closes every job of the shared scheduler
MainLeave(i) ==
    /\ ~Blocked
    /\ main_pc[i] = "wait"
    /\ WaitLoopExits(i)
    /\ main_pc' = [main_pc EXCEPT ![i] = "returned"]
    /\ job_pc' = [j \in Invocations |->
                    IF JobActive(j) THEN "cancelled" ELSE job_pc[j]]
    /\ start_job' = [j \in Invocations |->
                    IF start_job[j] = "pending" THEN "cancelled" ELSE start_job[j]]
    /\ UNCHANGED <<settings, handling, middlewares, flags, running, startup_pc,
                   cleanup_pc, loop, queues>>

(***************************************************************************)
(* _main(): the main job.                                                  *)
(***************************************************************************)
\* await self.__initialize(): an exception ends the job, and leaves the
\* appended pairs in the chain as they are, not instantiated
JobInitialize(i) ==
    /\ ~Blocked
    /\ job_pc[i] = "init"
    /\ IF InitializeRaises(middlewares, settings)
       THEN /\ job_pc' = [job_pc EXCEPT ![i] = "raised"]
            /\ middlewares' =
                 middlewares \o
                 [k \in 1..Len(AppendedPairs(settings)) |->
                    [mw |-> AppendedPairs(settings)[k].mw,
                     key |-> AppendedPairs(settings)[k].key,
                     pos |-> Len(middlewares) + k, inst |-> FALSE]]
       ELSE /\ job_pc' = [job_pc EXCEPT ![i] = "launch"]
            /\ middlewares' =
                 [k \in 1..Len(BuildChain(settings)) |->
                    [mw |-> BuildChain(settings)[k].mw,
                     key |-> BuildChain(settings)[k].key,
                     pos |-> BuildChain(settings)[k].pos, inst |-> TRUE]]
    /\ UNCHANGED <<settings, handling, flags, running, main_pc, tasks, loop, queues>>

\* the startup task, the word loops and the request loops are created, the
\* collect_start job is spawned, and _main waits for the tasks.  A startup
\* target that is a plain function runs, and may raise, right here.
JobLaunch(i) ==
    /\ ~Blocked
    /\ job_pc[i] = "launch"
    /\ \E call \in Calls({NoneValue}) :
         IF RunTask(call).raised
         THEN /\ job_pc' = [job_pc EXCEPT ![i] = "raised"]
              /\ UNCHANGED <<startup_pc, loop, start_job>>
         ELSE /\ job_pc' = [job_pc EXCEPT ![i] = "waitloops"]
              /\ startup_pc' = [startup_pc EXCEPT ![i] =
                                  IF call.sync THEN "done" ELSE "ready"]
              /\ loop' = [l \in Loops |->
                            IF l \in LoopsOf(i)
                            THEN [IdleLoop EXCEPT !.pc = "check"]
                            ELSE loop[l]]
              /\ start_job' = [start_job EXCEPT ![i] = "pending"]
    /\ UNCHANGED <<settings, handling, middlewares, flags, running, main_pc, cleanup_pc,
                   queues>>

\* the startup task runs (inside __run_task)
StartupRun(i) ==
    /\ ~Blocked
    /\ startup_pc[i] = "ready"
    /\ startup_pc' = [startup_pc EXCEPT ![i] = "done"]
    /\ UNCHANGED <<settings, handling, middlewares, flags, running, main_pc, job_pc,
                   start_job, cleanup_pc, loop, queues>>

\* the collect_start job runs: the collector is running from now on
CollectStart(i) ==
    /\ ~Blocked
    /\ start_job[i] = "pending"
    /\ start_job' = [start_job EXCEPT ![i] = "done"]
    /\ running' = TRUE
    /\ UNCHANGED <<settings, handling, middlewares, flags, main_pc, job_pc, startup_pc,
                   cleanup_pc, loop, queues>>

LoopDone(l) == loop[l].pc \in {"returned", "raised"}

\* asyncio.wait(tasks) is over: every task is done, returned or raised
TasksDone(i) == startup_pc[i] = "done" /\ \A l \in LoopsOf(i) : LoopDone(l)

\* await asyncio.wait(tasks) returns; the cleanup task is created
JobJoin(i) ==
    /\ ~Blocked
    /\ job_pc[i] = "waitloops"
    /\ TasksDone(i)
    /\ job_pc' = [job_pc EXCEPT ![i] = "waitcleanup"]
    /\ cleanup_pc' = [cleanup_pc EXCEPT ![i] = "running"]
    /\ UNCHANGED <<settings, handling, middlewares, flags, running, main_pc, start_job,
                   startup_pc, loop, queues>>

\* the cleanup task runs (inside __run_task)
CleanupRun(i) ==
    /\ ~Blocked
    /\ cleanup_pc[i] = "running"
    /\ cleanup_pc' = [cleanup_pc EXCEPT ![i] = "done"]
    /\ UNCHANGED <<settings, handling, middlewares, flags, running, main_pc, job_pc,
                   start_job, startup_pc, loop, queues>>

\* the cleanup tasks are done: collect_finish, output_stats, _main returns
JobFinish(i) ==
    /\ ~Blocked
    /\ job_pc[i] = "waitcleanup"
    /\ cleanup_pc[i] = "done"
    /\ job_pc' = [job_pc EXCEPT ![i] = "done"]
    /\ UNCHANGED <<settings, handling, middlewares, flags, running, main_pc, tasks, loop,
                   queues>>

(***************************************************************************)
(* The fetch result dispatch, as functions of what the hooks and the       *)
(* user's callbacks do.                                                    *)
(***************************************************************************)
\* what a hook may do: raise, as a plain function or as a coroutine, or
\* return one of values
CallChoices(values) ==
    {Call(sync, TRUE, NoneValue) : sync \in BOOLEAN}
    \cup {Call(FALSE, FALSE, v) : v \in values}

\* one call per middleware of the chain; an element of the chain that is
\* no instance has no hook, and the attribute lookup raises
HookCalls(values) ==
    {c \in [1..Len(middlewares) -> CallChoices(values)] :
        \A k \in 1..Len(middlewares) :
            ~middlewares[k].inst => (c[k].sync /\ c[k].raises)}

\* what the user's callbacks may return: nothing, or Requests and Items
CallbackValues == {NoneValue} \cup
                  {OutValue(o) : o \in Outputs(produced < MaxProduced)}
\* what a process_exception or process_response hook may return: None, a
\* Response, an empty list (false, yet not None), or a Request
HookValues == {NoneValue, ResponseValue, OutValue(<<>>)} \cup
              {OutValue(<<RequestThing(f)>>) :
                  f \in IF produced < MaxProduced THEN Fingerprints ELSE {}}

\* a call of a callback of the spider: a plain call, never wrapped
CallbackCalls == {Call(TRUE, TRUE, NoneValue)} \cup
                 {Call(TRUE, FALSE, v) : v \in CallbackValues}

\* __handle_downloader_exception(request, exception), lines 174-181: the
\* chain; callback says whether the error callback is looked at next
HandleDownloaderException(calls) ==
    LET c == ProcessOutcomeChain(calls)
        unhandled == ~c.raised /\ c.value.kind = "None"
    IN  [raised |-> c.raised, value |-> c.value, log |-> c.log,
         callback |-> unhandled, recorded |-> unhandled]

\* __handle_downloader_response(request, response), lines 188-197: the
\* chain; callback says whether the request's callback is looked at next
HandleDownloaderResponse(calls) ==
    LET c == ProcessOutcomeChain(calls)
    IN  [raised |-> c.raised, value |-> c.value, log |-> c.log,
         callback |-> ~c.raised /\ c.value.kind \in {"Response", "None"},
         recorded |-> FALSE]

\* lines 182-183 and 205-206: the callback is called, plainly, when it is a
\* function defined on the spider's class; else the chain's value stays
CallbackResult(value, has_callback, cb) ==
    IF has_callback
    THEN [raised |-> cb.raises,
          handled |-> IF cb.raises THEN NoneValue ELSE cb.value]
    ELSE [raised |-> FALSE, handled |-> value]

\* the Requests among the members of a handled sequence
RequestsIn(out) == SelectSeq(out, LAMBDA t : t.type = "Request")
ItemsIn(out) == SelectSeq(out, LAMBDA t : t.type = "Item")

\* the members of a Response handed on as handled data are neither
\* Requests nor Items: nothing is fanned out
FanoutOf(v) == IF v.kind = "Out" THEN v.out ELSE <<>>

(***************************************************************************)
(* The word loops and the request loops.                                   *)
(***************************************************************************)
SetLoop(l, r) == loop' = [loop EXCEPT ![l] = r]
Bump(counter, f, n) == [stats EXCEPT ![counter][f] = @ + n]

\* an event loop that runs the ready tasks in any order
StartupAnyOrder(i) == TRUE

\* asyncio runs the tasks in the order _main created them: the startup
\* task has begun when a loop takes its first step
StartupBegun(i) == startup_pc[i] # "ready"

\* while not self.__shutting_down: ... await asyncio.sleep(PROCESS_DALEY)
LoopCheck(l) ==
    /\ ~Blocked
    /\ loop[l].pc = "check"
    /\ StartupBegun(l[1])
    /\ SetLoop(l, [loop[l] EXCEPT !.pc = IF shutting_down THEN "returned"
                                         ELSE "sleep",
                                   !.log = <<>>, !.calls = 0, !.made = 0,
                                   !.miss = FALSE, !.passed = 0,
                                   !.collected = 0, !.sent = 0])
    /\ UNCHANGED <<settings, handling, middlewares, flags, running, main_pc, job_pc,
                   tasks, queues>>

\* word = get_word(); a word is counted (collect_word) and kept
WordPop(l) ==
    /\ ~Blocked
    /\ l \in AllWordLoops
    /\ loop[l].pc = "sleep"
    /\ IF words = <<>>
       THEN SetLoop(l, [loop[l] EXCEPT !.pc = "check"]) /\ UNCHANGED words
       ELSE /\ SetLoop(l, [loop[l] EXCEPT !.pc = "make", !.unit = Head(words)])
            /\ words' = Tail(words)
    /\ UNCHANGED <<settings, handling, middlewares, flags, running, main_pc, job_pc,
                   tasks, requests, produced, stats>>

\* what make_request hands back: None, one Request, or a list of Requests
\* (Union[List[Request], Request])
MadeValues ==
    {[list |-> FALSE, reqs |-> <<>>]}
    \cup {[list |-> FALSE, reqs |-> <<f>>] : f \in Fingerprints}
    \cup {[list |-> TRUE, reqs |-> r] :
            r \in UNION {[1..n -> Fingerprints] : n \in 0..MaxMade}}

\* request = self._spider.make_request(word), a plain call; then, if
\* request: one send_request(request), handed the value as it is.  The
\* request channel takes a Request: a list handed to it puts no Request
\* on the channel
WordMake(l) ==
    /\ ~Blocked
    /\ l \in AllWordLoops
    /\ loop[l].pc = "make"
    /\ \E raises \in BOOLEAN, request \in MadeValues :
         IF raises
         THEN /\ SetLoop(l, [loop[l] EXCEPT !.pc = "raised", !.unit = 0,
                                            !.fault = "make_request"])
              /\ UNCHANGED requests
         ELSE /\ SetLoop(l, [loop[l] EXCEPT
                    !.pc = "check", !.unit = 0,
                    !.made = Len(request.reqs),
                    !.calls = IF request.reqs # <<>> THEN 1 ELSE 0])
              /\ requests' = IF request.reqs # <<>> /\ ~request.list
                             THEN Append(requests, request.reqs[1])
                             ELSE requests
    /\ UNCHANGED <<settings, handling, middlewares, flags, running, main_pc, job_pc,
                   tasks, words, produced, stats>>

\* request = get_request()
RequestPop(l) ==
    /\ ~Blocked
    /\ l \in AllRequestLoops
    /\ loop[l].pc = "sleep"
    /\ IF requests = <<>>
       THEN SetLoop(l, [loop[l] EXCEPT !.pc = "check"]) /\ UNCHANGED requests
       ELSE /\ SetLoop(l, [loop[l] EXCEPT !.pc = "filter",
                                          !.unit = Head(requests)])
            /\ requests' = Tail(requests)
    /\ UNCHANGED <<settings, handling, middlewares, flags, running, main_pc, job_pc,
                   tasks, words, produced, stats>>

\* a loop that goes on whatever the filter answered
FilterIgnored(accepted) == TRUE

\* if request: after filter_request, only an accepted request goes on
FilterPasses(accepted) == accepted

\* request = filter_request(request); collect_request is spawned
RequestFilter(l) ==
    /\ ~Blocked
    /\ l \in AllRequestLoops
    /\ loop[l].pc = "filter"
    /\ \E accepted \in BOOLEAN :
         /\ IF FilterPasses(accepted)
            THEN SetLoop(l, [loop[l] EXCEPT !.pc = "prehook",
                                            !.accepted = accepted,
                                            !.early = accepted /\ ~shutting_down])
            ELSE SetLoop(l, [loop[l] EXCEPT !.pc = "check", !.unit = 0])
         /\ stats' = [stats EXCEPT
                !.accepted[loop[l].unit] = @ + (IF accepted THEN 1 ELSE 0),
                !.rejected[loop[l].unit] = @ + (IF accepted THEN 0 ELSE 1),
                !.collected[loop[l].unit] =
                    @ + (IF FilterPasses(accepted) THEN 1 ELSE 0)]
    /\ UNCHANGED <<settings, handling, middlewares, flags, running, main_pc, job_pc,
                   tasks, words, requests, produced>>

\* every middleware's process_request, in the order of the chain
RequestPreHooks(l) ==
    /\ ~Blocked
    /\ l \in AllRequestLoops
    /\ loop[l].pc = "prehook"
    /\ \E calls \in HookCalls({NoneValue}) :
         LET c == ProcessRequestChain(calls)
         IN  SetLoop(l, [loop[l] EXCEPT
                    !.pc = IF c.raised THEN "raised" ELSE "throttle",
                    !.unit = IF c.raised THEN 0 ELSE @,
                    !.accepted = IF c.raised THEN FALSE ELSE @,
                    !.early = IF c.raised THEN FALSE ELSE @,
                    !.log = c.log,
                    !.fault = IF c.raised THEN "process_request" ELSE @])
    /\ UNCHANGED <<settings, handling, middlewares, flags, running, main_pc, job_pc,
                   tasks, queues>>

\* sleep(DOWNLOAD_DALEY * uniform(0.5, 1.5)) is over
RequestDelay(l) ==
    /\ l \in AllRequestLoops
    /\ loop[l].pc = "throttle"
    /\ SetLoop(l, [loop[l] EXCEPT !.pc = "download"])
    /\ UNCHANGED <<settings, handling, middlewares, flags, running, main_pc, job_pc,
                   tasks, queues>>

\* data = download(request): a Response, an Exception, or None when the
\* downloader raised inside __run_task
RequestDownload(l) ==
    /\ ~Blocked
    /\ l \in AllRequestLoops
    /\ loop[l].pc = "download"
    /\ \E data \in {ResponseValue, ExceptionValue, NoneValue} :
         SetLoop(l, [loop[l] EXCEPT !.pc = "output", !.value = data])
    /\ stats' = Bump("fetched", loop[l].unit, 1)
    /\ UNCHANGED <<settings, handling, middlewares, flags, running, main_pc, job_pc,
                   tasks, words, requests, produced>>

\* the loop goes on with a handled value: to the fan-out when it is true,
\* else ("if not handled_data: return") to its next iteration
AfterHandled(l, handled, log, miss) ==
    SetLoop(l, [loop[l] EXCEPT
        !.miss = miss /\ ~Truthy(handled),
        !.calls = IF Truthy(handled) THEN 0 ELSE @,
        !.pc = IF Truthy(handled) THEN "fanout" ELSE "check",
        !.unit = IF Truthy(handled) THEN @ ELSE 0,
        !.accepted = IF Truthy(handled) THEN @ ELSE FALSE,
        !.early = IF Truthy(handled) THEN @ ELSE FALSE,
        !.value = IF Truthy(handled) THEN handled ELSE NoneValue,
        !.log = log])

\* __handle_downloader_output: the downloader's data goes through the
\* process_exception or the process_response hooks
RequestOutput(l) ==
    /\ ~Blocked
    /\ l \in AllRequestLoops
    /\ loop[l].pc = "output"
    /\ IF loop[l].value.kind = "None"
       THEN AfterHandled(l, NoneValue, <<>>, TRUE) /\ UNCHANGED produced
       ELSE \E calls \in HookCalls(HookValues) :
         LET failed == loop[l].value.kind = "Exception"
             h == IF failed THEN HandleDownloaderException(calls)
                  ELSE HandleDownloaderResponse(calls)
         IN  /\ IF h.raised
                THEN SetLoop(l, [loop[l] EXCEPT !.pc = "raised", !.unit = 0,
                        !.accepted = FALSE, !.early = FALSE,
                        !.value = NoneValue, !.log = h.log,
                        !.fault = IF failed THEN "process_exception"
                                  ELSE "process_response"])
                ELSE IF h.callback
                THEN SetLoop(l, [loop[l] EXCEPT
                        !.pc = IF failed THEN "errback" ELSE "callback",
                        !.value = h.value, !.log = h.log,
                        !.calls = IF h.recorded THEN 1 ELSE 0])
                ELSE AfterHandled(l, h.value, h.log, FALSE)
             /\ produced' = IF h.raised THEN produced
                            ELSE produced + Len(RequestsIn(FanoutOf(h.value)))
    /\ UNCHANGED <<settings, handling, middlewares, flags, running, main_pc, job_pc,
                   tasks, words, requests, stats>>

\* request.err_callback(request, exception) or request.callback(response)
RequestCallback(l) ==
    /\ ~Blocked
    /\ l \in AllRequestLoops
    /\ loop[l].pc \in {"errback", "callback"}
    /\ \E has_callback \in BOOLEAN, cb \in CallbackCalls :
         LET r == CallbackResult(loop[l].value, has_callback, cb)
         IN  /\ IF r.raised
                THEN SetLoop(l, [loop[l] EXCEPT !.pc = "raised", !.unit = 0,
                        !.accepted = FALSE, !.early = FALSE,
                        !.value = NoneValue,
                        !.fault = IF loop[l].pc = "errback" THEN "err_callback"
                                  ELSE "callback"])
                ELSE AfterHandled(l, r.handled, loop[l].log,
                                  loop[l].pc = "errback" /\ ~has_callback)
             /\ produced' = IF r.raised THEN produced
                            ELSE produced + Len(RequestsIn(FanoutOf(r.handled)))
    /\ UNCHANGED <<settings, handling, middlewares, flags, running, main_pc, job_pc,
                   tasks, words, requests, stats>>

RemoveAt(seq, k) == SubSeq(seq, 1, k - 1) \o SubSeq(seq, k + 1, Len(seq))
IdsOf(things) == [k \in 1..Len(things) |-> things[k].id]

\* the for loop of __handle_downloader_output over the handled data: a
\* Request is sent (as a task when send_request is a coroutine function),
\* an Item goes through process_item and becomes a __filter_and_send task
RequestFanout(l) ==
    /\ ~Blocked
    /\ l \in AllRequestLoops
    /\ loop[l].pc = "fanout"
    /\ \E async_send \in BOOLEAN,
          calls \in IF ItemsIn(FanoutOf(loop[l].value)) = <<>>
                    THEN {<<>>} ELSE HookCalls({NoneValue, ItemValue}) :
         LET out == FanoutOf(loop[l].value)
             c == ProcessItemChain(calls)
             raised == ItemsIn(out) # <<>> /\ c.raised
             new == (IF async_send THEN RequestsIn(out) ELSE <<>>)
                    \o (IF raised THEN <<>> ELSE ItemsIn(out))
         IN  /\ SetLoop(l, [loop[l] EXCEPT
                    !.pc = IF raised THEN "raised"
                           ELSE IF new = <<>> THEN "check" ELSE "join",
                    !.unit = IF raised \/ new = <<>> THEN 0 ELSE @,
                    !.accepted = IF raised \/ new = <<>> THEN FALSE ELSE @,
                    !.early = IF raised \/ new = <<>> THEN FALSE ELSE @,
                    !.value = NoneValue,
                    !.fault = IF raised THEN "process_item" ELSE @,
                    !.tasks = new,
                    !.log = IF ItemsIn(out) # <<>> THEN c.log ELSE <<>>])
             /\ requests' = IF async_send THEN requests
                            ELSE requests \o IdsOf(RequestsIn(out))
    /\ UNCHANGED <<settings, handling, middlewares, flags, running, main_pc, job_pc,
                   tasks, words, produced, stats>>

\* an item filter_item does not hand back goes no further
ItemFilterIgnored(accepted) == TRUE

\* item = filter_item(item); if item: collect_item is spawned, send_item
ItemPasses(accepted) == accepted

\* one of the tasks of the fan-out runs: send_request(one), or
\* __filter_and_send(request, item)
FanoutTaskDone(l) ==
    /\ ~Blocked
    /\ l \in AllRequestLoops
    /\ \E k \in 1..Len(loop[l].tasks), accepted \in BOOLEAN :
         /\ loop[l].tasks[k].type = "Request" => accepted
         /\ LET item == loop[l].tasks[k].type = "Item"
                on == IF item /\ ItemPasses(accepted) THEN 1 ELSE 0
            IN  SetLoop(l, [loop[l] EXCEPT
                    !.tasks = RemoveAt(@, k),
                    !.passed = @ + (IF item /\ accepted THEN 1 ELSE 0),
                    !.collected = @ + on,
                    !.sent = @ + on])
         /\ requests' = IF loop[l].tasks[k].type = "Request"
                        THEN Append(requests, loop[l].tasks[k].id)
                        ELSE requests
    /\ UNCHANGED <<settings, handling, middlewares, flags, running, main_pc, job_pc,
                   tasks, words, produced, stats>>

\* a dispatcher that goes on without waiting for the tasks it created
FanoutNotAwaited(l) == TRUE

\* asyncio.wait(tasks) returns when every task of the list is done
FanoutFinished(l) == loop[l].tasks = <<>>

\* if len(tasks): await asyncio.wait(tasks) returns
RequestJoin(l) ==
    /\ ~Blocked
    /\ l \in AllRequestLoops
    /\ loop[l].pc = "join"
    /\ FanoutFinished(l)
    /\ SetLoop(l, [loop[l] EXCEPT !.pc = "check", !.unit = 0,
                                   !.accepted = FALSE, !.early = FALSE])
    /\ UNCHANGED <<settings, handling, middlewares, flags, running, main_pc, job_pc,
                   tasks, queues>>

(***************************************************************************)
(* The specifications.                                                     *)
(***************************************************************************)
\* the shutdown signal and the public close operation
Control ==
    \/ \E force \in BOOLEAN : CloseCrawler(force)
    \/ ShutdownSignal

\* main(), _main() and the tasks and jobs _main creates
Lifecycle ==
    \/ \E i \in Invocations : MainStart(i)
    \/ \E i \in Invocations : MainSpawn(i)
    \/ \E i \in Invocations : MainLeave(i)
    \/ \E i \in Invocations : JobInitialize(i)
    \/ \E i \in Invocations : JobLaunch(i)
    \/ \E i \in Invocations : StartupRun(i)
    \/ \E i \in Invocations : CollectStart(i)
    \/ \E i \in Invocations : JobJoin(i)
    \/ \E i \in Invocations : CleanupRun(i)
    \/ \E i \in Invocations : JobFinish(i)

\* the loops' polling: the shutdown check, the poll sleep and the pop
Polling ==
    \/ \E l \in Loops : LoopCheck(l)
    \/ \E l \in Loops : WordPop(l)
    \/ \E l \in Loops : RequestPop(l)

\* the loops' work on the word or request they hold
Crawling ==
    \/ \E l \in Loops : WordMake(l)
    \/ \E l \in Loops : RequestFilter(l)
    \/ \E l \in Loops : RequestPreHooks(l)
    \/ \E l \in Loops : RequestDelay(l)
    \/ \E l \in Loops : RequestDownload(l)
    \/ \E l \in Loops : RequestOutput(l)
    \/ \E l \in Loops : RequestCallback(l)
    \/ \E l \in Loops : RequestFanout(l)
    \/ \E l \in Loops : FanoutTaskDone(l)
    \/ \E l \in Loops : RequestJoin(l)

Next == Control \/ Lifecycle \/ Polling \/ Crawling

\* one crawl, from the call of main() on
Spec == Init /\ [][Next]_vars

\* a crawl whose scheduler holds no word: the loops only poll
InitIdle == InitWith(<<>>, <<>>, {NoHandling})
NextIdle == Control \/ Lifecycle \/ Polling
SpecIdle == InitIdle /\ [][NextIdle]_vars

\* the same, with main() called a second time during the crawl
NextTwice == NextIdle \/ \E i \in Invocations : MainAgain(i)
SpecTwice == InitIdle /\ [][NextTwice]_vars

\* a crawl that runs on, over a scheduler that holds requests already: the
\* request loops alone
InitFetch == InitWith(<<>>, [n \in 1..NumFingerprints |-> n], {NoHandling})
NextFetch ==
    \/ \E i \in Invocations : MainStart(i)
    \/ \E i \in Invocations : MainSpawn(i)
    \/ \E i \in Invocations : JobInitialize(i)
    \/ \E i \in Invocations : JobLaunch(i)
    \/ \E i \in Invocations : StartupRun(i)
    \/ \E i \in Invocations : CollectStart(i)
    \/ \E l \in AllRequestLoops : LoopCheck(l)
    \/ \E l \in AllRequestLoops : RequestPop(l)
    \/ \E l \in AllRequestLoops : RequestFilter(l)
    \/ \E l \in AllRequestLoops : RequestPreHooks(l)
    \/ \E l \in AllRequestLoops : RequestDelay(l)
    \/ \E l \in AllRequestLoops : RequestDownload(l)
    \/ \E l \in AllRequestLoops : RequestOutput(l)
    \/ \E l \in AllRequestLoops : RequestCallback(l)
    \/ \E l \in AllRequestLoops : RequestFanout(l)
    \/ \E l \in AllRequestLoops : FanoutTaskDone(l)
    \/ \E l \in AllRequestLoops : RequestJoin(l)
SpecFetch == InitFetch /\ [][NextFetch]_vars

\* the same crawl over a scheduler that holds one request more than there
\* are request loops, with main() called a second time during the crawl
InitBusy ==
    InitWith(<<>>, [n \in 1..CONCURRENT_REQUESTS + 1 |-> 1], {NoHandling})
NextBusy == NextFetch \/ \E i \in Invocations : MainAgain(i)
SpecBusy == InitBusy /\ [][NextBusy]_vars

\* __handle_spider_item alone, on every Item and every outcome of the
\* process_item hooks
InitItem == InitWith(<<>>, <<>>, Handlings)
NextItem == SpiderItem
SpecItem == InitItem /\ [][NextItem]_vars

\* the event loop runs every task that is ready: the supervisor gets its
\* turn whenever no blocking sleep holds the thread, and a blocking sleep
\* ends
FairSpec ==
    /\ Spec
    /\ \A i \in Invocations :
         SF_vars(MainStart(i) \/ MainSpawn(i) \/ MainLeave(i))
    /\ \A l \in AllRequestLoops : WF_vars(RequestDelay(l))

(***************************************************************************)
(* The claims.                                                             *)
(***************************************************************************)
Running(l) == loop[l].pc \notin {"none", "returned", "raised"}

\* a request loop holds a request the filter accepted whose outcome is not
\* yet fully dispatched
Holding(l) == loop[l].pc \in {"prehook", "throttle", "download", "output",
                              "errback", "callback", "fanout", "join"}

HookFaults == {"process_request", "process_response", "process_exception",
               "process_item"}
UserFaults == {"make_request", "callback", "err_callback"}

\* C1: once shutting_down is set, no word loop and no request loop wakes
\* from its poll sleep to call get_word / get_request
C1_NoPopAfterShuttingDown ==
    [][\A l \in Loops :
         (loop[l].pc = "sleep" /\ loop'[l].pc # "sleep") => ~shutting_down]_vars

\* C2, as claimed: an interrupt signal that finds shutting_down or shutdown
\* set, whoever set it, sets shutdown
C2_SignalWhileClosingForces ==
    [][(signal_int_count' # signal_int_count /\ (shutting_down \/ shutdown))
         => shutdown']_vars

\* C2, amended: every interrupt signal after the first one sets shutdown;
\* the first one sets shutting_down and leaves shutdown as it is, also when
\* close_crawler had set shutting_down before
C2_LaterSignalForces ==
    [][signal_int_count' # signal_int_count =>
         IF signal_int_count >= 1
         THEN shutdown'
         ELSE shutting_down' /\ shutdown' = shutdown]_vars

\* C2: a second signal has arrived and has set shutdown
C2_Witness ==
    /\ signal_int_count = 2
    /\ shutdown
    /\ finish_reason = "Received SIGNAL INT"

\* C3: once shutdown is set, main() leaves its wait loop and returns,
\* whatever the loops, the fetches and the cleanup task are doing
C3_ForcedShutdownReturns == shutdown ~> (main_pc[1] = "returned")

\* C3: main() has returned on shutdown while a request loop still holds a
\* request and the cleanup task has not run
C3_Witness ==
    /\ shutdown
    /\ main_pc[1] = "returned"
    /\ \E l \in RequestLoops(1) : Holding(l)
    /\ cleanup_pc[1] = "none"

\* C4: when the cleanup task of an invocation has been started, every loop
\* of the invocation has observed shutting_down and returned
C4_CleanupAfterLoopsReturned ==
    \A i \in Invocations :
        cleanup_pc[i] # "none" =>
            \A l \in LoopsOf(i) : loop[l].pc = "returned"

\* C5: under graceful shutdown (shutting_down set, shutdown not), a request
\* loop that holds a request accepted before shutting_down was set goes on
\* until the outcome is fully dispatched: it does not end, and no cleanup
\* task starts, before
C5_InFlightRequestCompletes ==
    [][\A l \in AllRequestLoops :
         (Holding(l) /\ loop[l].early /\ shutting_down /\ ~shutdown
          /\ ~shutdown')
            => (loop'[l].pc \notin {"raised", "returned"}
                /\ cleanup_pc'[l[1]] = "none")]_vars

\* C6: the loops of two invocations of main() never run at the same time
C6_NoConcurrentCrawls ==
    \A l1 \in LoopsOf(1), l2 \in LoopsOf(2) : ~(Running(l1) /\ Running(l2))

\* C7: no word loop and no request loop is ended by an exception of a
\* middleware hook, at none of the four extension points
C7_HookFaultNeverEndsLoop ==
    \A l \in Loops : loop[l].fault \notin HookFaults

\* C8: no word loop and no request loop is ended by an exception of
\* make_request, of a request's callback or of its error callback
C8_UserFaultNeverEndsLoop ==
    \A l \in Loops : loop[l].fault \notin UserFaults

\* middleware x is ahead of middleware y: lower priority, or the same
\* priority and configured earlier
Ahead(x, y) == x.key < y.key \/ (x.key = y.key /\ x.pos < y.pos)

\* C9: the hooks one run of the chain invokes for one request, response or
\* item are invoked in ascending priority order, equal priorities in
\* insertion order
C9_HooksInPriorityOrder ==
    \A l \in AllRequestLoops :
        \A a, b \in DOMAIN loop[l].log :
            a < b => Ahead(middlewares[loop[l].log[a]],
                           middlewares[loop[l].log[b]])

\* C9: a chain run has invoked two hooks, the second one of a higher
\* priority value although it was configured first
C9_Witness ==
    \E l \in AllRequestLoops :
        /\ Len(loop[l].log) = 2
        /\ middlewares[loop[l].log[1]].key < middlewares[loop[l].log[2]].key
        /\ middlewares[loop[l].log[2]].pos < middlewares[loop[l].log[1]].pos

\* C10: a request is past the filter only when the filter accepted it, and
\* per fingerprint there are no more collect_request events and no more
\* downloader calls than accepts
C10_RejectedRequestCausesNothing ==
    /\ \A l \in AllRequestLoops :
         loop[l].pc \in {"prehook", "throttle", "download", "output"}
            => loop[l].accepted
    /\ \A f \in Fingerprints :
         /\ stats.collected[f] <= stats.accepted[f]
         /\ stats.fetched[f] <= stats.accepted[f]

\* C10: a fingerprint was popped twice, accepted once and rejected once,
\* and fetched once
C10_Witness ==
    \E f \in Fingerprints :
        /\ stats.rejected[f] = 1
        /\ stats.accepted[f] = 1
        /\ stats.collected[f] = 1
        /\ stats.fetched[f] = 1

\* C11: when the fetch of a request failed, no process_exception hook
\* handled it and no error callback was called, append_error_request was
\* called exactly once for the request and nothing was fanned out
C11_UnhandledFailureRecordedOnce ==
    \A l \in AllRequestLoops :
        loop[l].miss => (loop[l].calls = 1 /\ loop[l].tasks = <<>>)

\* C12: an Item is delivered with send_item only when filter_item accepted
\* it, and there is one collect_item event for every delivery: an Item the
\* filter rejects is neither counted nor delivered
C12_OnlyAcceptedItemsDelivered ==
    \A l \in AllRequestLoops :
        /\ loop[l].sent <= loop[l].passed
        /\ loop[l].collected = loop[l].sent

\* C12: filter_item accepted an Item of a fan-out, and it was counted and
\* delivered
C12_Witness ==
    \E l \in AllRequestLoops :
        loop[l].passed = 1 /\ loop[l].collected = 1 /\ loop[l].sent = 1

\* C13: while a request loop is in its inter-request delay, every other
\* loop that is due for its shutdown check and a supervisor whose wait loop
\* is due to break can take their step
C13_DelayDoesNotBlock ==
    \A l \in AllRequestLoops :
        loop[l].pc = "throttle" =>
            /\ \A o \in Loops \ {l} :
                   (loop[o].pc = "check" /\ StartupBegun(o[1]))
                      => ENABLED LoopCheck(o)
            /\ \A i \in Invocations :
                   (main_pc[i] = "wait" /\ WaitLoopExits(i))
                      => ENABLED MainLeave(i)

ConfiguredClasses(s) ==
    {s.DEFAULT_MIDDLEWARES[k].mw : k \in
        {j \in DOMAIN s.DEFAULT_MIDDLEWARES :
            /\ ValidKey(s.DEFAULT_MIDDLEWARES[j].key)
            /\ s.DEFAULT_MIDDLEWARES[j].mw \in KnownMiddlewares}}
    \cup
    {s.MIDDLEWARES[k].mw : k \in
        {j \in DOMAIN s.MIDDLEWARES :
            /\ ValidKey(s.MIDDLEWARES[j].key)
            /\ IsSubclass(s.MIDDLEWARES[j].mw, "BaseMiddleware")}}

\* C16: the chain __initialize has built holds exactly one instance of
\* every configured class with a valid priority, and no class twice
C16_ChainIsConfiguredClassesOnce ==
    job_pc[1] = "launch" =>
        /\ {middlewares[k].mw : k \in DOMAIN middlewares}
              = ConfiguredClasses(settings)
        /\ Len(middlewares) = Cardinality(ConfiguredClasses(settings))

\* C17: after a successful fetch whose process_response hooks all returned,
\* either the request's callback is what comes next, or a hook has
\* short-circuited with a result that is no Response, and that result goes
\* to the fan-out without any callback
C17_CallbackUnlessShortCircuit ==
    [][\A l \in AllRequestLoops :
         (/\ loop[l].pc = "output"
          /\ loop[l].value.kind = "Response"
          /\ loop'[l].pc \notin {"output", "raised"})
            => \/ loop'[l].pc = "callback"
               \/ /\ loop'[l].pc = "fanout"
                  /\ loop'[l].value.kind = "Out"
                  /\ loop'[l].value.out # <<>>]_vars

\* C18: while a task fanned out from a fetch outcome (the re-enqueue of a
\* produced Request, the filter-and-send of a produced Item) is unfinished,
\* its request loop waits for it, or has ended on an exception: it is at
\* no step of a next iteration
C18_NextIterationAfterFanout ==
    \A l \in AllRequestLoops :
        loop[l].tasks # <<>> => loop[l].pc \in {"join", "raised"}

\* a request loop waits for the filter-and-send of a produced Item
C18_Witness ==
    \E l \in AllRequestLoops :
        /\ loop[l].pc = "join"
        /\ \E k \in 1..Len(loop[l].tasks) : loop[l].tasks[k].type = "Item"

\* C19: when a word loop has dealt with a word, it has called send_request
\* as many times as make_request returned Requests for that word
C19_OnePushPerMadeRequest ==
    \A l \in AllWordLoops :
        loop[l].pc = "check" => loop[l].calls = loop[l].made

\* C20: never more fetches in flight than CONCURRENT_REQUESTS, never more
\* words being turned into requests than CONCURRENT_WORDS
C20_BoundedConcurrency ==
    /\ Cardinality({l \in AllRequestLoops : loop[l].pc = "download"})
          <= CONCURRENT_REQUESTS
    /\ Cardinality({l \in AllWordLoops : loop[l].pc = "make"})
          <= CONCURRENT_WORDS

====
